---- MODULE Spec2Model ----
(***************************************************************************)
(* Model of the Huffman codec of filezipper-app (src/huffman.py): one      *)
(* HuffmanCoding instance compressing the file at its path, the pickled    *)
(* container it writes, and the decompression of that container.           *)
(*                                                                         *)
(* Representation.  A bit string (Python str of '0'/'1') is a sequence of  *)
(* 0/1.  A symbol is a tuple: a text character is the 1-tuple of its code  *)
(* point, a pixel is the 3-tuple of its channels; Python's None is the     *)
(* empty tuple.  Node objects live in an arena (the sequence nodes); a     *)
(* reference to a Node is its index in the arena and 0 is None.  A dict    *)
(* is a function; the frequency dict, whose iteration order the code       *)
(* depends on, is a sequence of entries in insertion order.                *)
(***************************************************************************)
EXTENDS Integers, Sequences, FiniteSets, TLC

VARIABLES
    file_type,        \* self.file_type
    file,             \* content of the file at self.file_path, as the reader returns it
    pc,               \* position of the compress call
    data,             \* compress: local data
    image_shape,      \* self.image_shape (NoShape while the attribute does not exist)
    nodes,            \* the Node objects created by the current compress call
    heap,             \* self.heap
    codes,            \* self.codes
    reverse_mapping,  \* self.reverse_mapping
    container,        \* the pickled dict in file_path + ".bin" (NoContainer before it is written)
    result,           \* what compress returned or raised
    d_bytes,          \* decompress: data['bytes'] as loaded
    decoded,          \* decompress: local decoded
    d_output,         \* content written by decompress (NoFile when nothing was written)
    d_result,         \* what decompress returned
    calls             \* compress calls made on this instance

vars == <<file_type, file, pc, data, image_shape, nodes, heap, codes,
          reverse_mapping, container, result, d_bytes, decoded, d_output, d_result, calls>>

cvars == <<file_type, file, pc, data, image_shape, nodes, heap, codes,
           reverse_mapping, container, result, calls>>

dvars == <<d_bytes, decoded, d_output, d_result>>

\* ---------------------------------------------------------------- bounds

\* longest file content explored by Spec
MaxLen == 5

\* longest file content explored by SpecReuse
MaxReuseLen == 3

\* compress calls on one instance explored by SpecReuse
MaxCalls == 2

\* ---------------------------------------------------------------- values

None == <<>>
NoShape == <<>>
NoFile == [written |-> FALSE, content |-> <<>>]
NoContainer == [written |-> FALSE, bytes |-> <<>>, reverse_mapping |-> <<>>,
                padding |-> 0, type |-> "", shape |-> <<>>]
EmptyDict == <<>>

TextSymbols == {<<97>>, <<98>>, <<99>>}
PixelSymbols == {<<10, 10, 10>>, <<255, 0, 0>>}

ImageTypes == {"jpg", "jpeg", "png", "bmp"}
TextTypes == {"txt", "docx", "pdf"}

\* the file types the model runs: a text type, an image type, an unsupported one
FileTypes == {"txt", "png", "exe"}

RECURSIVE SeqsUpTo(_, _)
SeqsUpTo(S, n) ==
    IF n = 0 THEN {<<>>}
    ELSE LET shorter == SeqsUpTo(S, n - 1)
         IN shorter \cup {Append(s, x) : s \in {t \in shorter : Len(t) = n - 1}, x \in S}

\* what the readers can return: any text (also the empty one); an image has a pixel
FileContents(ft, n) ==
    IF ft \in ImageTypes THEN SeqsUpTo(PixelSymbols, n) \ {<<>>}
    ELSE IF ft \in TextTypes THEN SeqsUpTo(TextSymbols, n)
    ELSE {<<>>}

Max(a, b) == IF a > b THEN a ELSE b
Min(a, b) == IF a < b THEN a ELSE b

Put(d, k, v) == [x \in (DOMAIN d) \cup {k} |-> IF x = k THEN v ELSE d[x]]

\* ---------------------------------------------------------------- Node, heapq

Node(symbol, freq) == [symbol |-> symbol, freq |-> freq, left |-> 0, right |-> 0]

\* Node.__lt__ on two references
Lt(ar, a, b) == ar[a].freq < ar[b].freq

\* heapq._siftdown; positions are 0-based as in Python
RECURSIVE SiftDownLoop(_, _, _, _, _)
SiftDownLoop(ar, h, newitem, startpos, pos) ==
    IF pos > startpos
    THEN LET parentpos == (pos - 1) \div 2
             parent == h[parentpos + 1]
         IN IF Lt(ar, newitem, parent)
            THEN SiftDownLoop(ar, [h EXCEPT ![pos + 1] = parent], newitem, startpos, parentpos)
            ELSE [h EXCEPT ![pos + 1] = newitem]
    ELSE [h EXCEPT ![pos + 1] = newitem]

siftdown(ar, h, startpos, pos) == SiftDownLoop(ar, h, h[pos + 1], startpos, pos)

\* heapq._siftup
RECURSIVE SiftUpLoop(_, _, _, _, _)
SiftUpLoop(ar, h, newitem, startpos, pos) ==
    LET endpos == Len(h)
        childpos == 2 * pos + 1
        rightpos == childpos + 1
    IN IF childpos < endpos
       THEN LET c == IF rightpos < endpos /\ ~Lt(ar, h[childpos + 1], h[rightpos + 1])
                     THEN rightpos ELSE childpos
            IN SiftUpLoop(ar, [h EXCEPT ![pos + 1] = h[c + 1]], newitem, startpos, c)
       ELSE siftdown(ar, [h EXCEPT ![pos + 1] = newitem], startpos, pos)

siftup(ar, h, pos) == SiftUpLoop(ar, h, h[pos + 1], pos, pos)

heappush(ar, h, item) == siftdown(ar, Append(h, item), 0, Len(h))

\* heapq.heappop on a non-empty list: the item returned and the list left
heappop(ar, h) ==
    LET lastelt == h[Len(h)]
        rest == SubSeq(h, 1, Len(h) - 1)
    IN IF rest # <<>>
       THEN [item |-> rest[1], heap |-> siftup(ar, [rest EXCEPT ![1] = lastelt], 0)]
       ELSE [item |-> lastelt, heap |-> rest]

\* ---------------------------------------------------------------- Huffman logic

Count(d, s) == Cardinality({i \in 1..Len(d) : d[i] = s})

\* the keys of the frequency dict in insertion order: first occurrences in d
RECURSIVE FirstOccurrences(_, _, _)
FirstOccurrences(d, i, acc) ==
    IF i > Len(d) THEN acc
    ELSE FirstOccurrences(d, i + 1,
            IF \E j \in 1..Len(acc) : acc[j] = d[i] THEN acc ELSE Append(acc, d[i]))

build_frequency_dict(d) ==
    LET keys == FirstOccurrences(d, 1, <<>>)
    IN [i \in 1..Len(keys) |-> [symbol |-> keys[i], freq |-> Count(d, keys[i])]]

RECURSIVE BuildHeapLoop(_, _, _, _)
BuildHeapLoop(ar, h, freq_dict, i) ==
    IF i > Len(freq_dict) THEN [nodes |-> ar, heap |-> h]
    ELSE LET ar2 == Append(ar, Node(freq_dict[i].symbol, freq_dict[i].freq))
         IN BuildHeapLoop(ar2, heappush(ar2, h, Len(ar2)), freq_dict, i + 1)

build_heap(ar, h, freq_dict) == BuildHeapLoop(ar, h, freq_dict, 1)

\* a merged node that takes the frequency of its first child only
MergedFreqFirstOnly(node1, node2) == node1.freq

MergedFreq(node1, node2) == node1.freq + node2.freq

\* one iteration of the loop of _merge_nodes
merge_step(ar, h) ==
    LET p1 == heappop(ar, h)
        p2 == heappop(ar, p1.heap)
        merged == [Node(None, MergedFreq(ar[p1.item], ar[p2.item]))
                      EXCEPT !.left = p1.item, !.right = p2.item]
        ar2 == Append(ar, merged)
    IN [nodes |-> ar2, heap |-> heappush(ar2, p2.heap, Len(ar2))]

\* the whole loop of _merge_nodes
RECURSIVE merge_nodes(_, _)
merge_nodes(ar, h) ==
    IF Len(h) > 1
    THEN LET m == merge_step(ar, h) IN merge_nodes(m.nodes, m.heap)
    ELSE [nodes |-> ar, heap |-> h]

LeftCode(code) == Append(code, 0)

\* a right child that is given the bit of the left one
RightCodeAsLeft(code) == Append(code, 0)

RightCode(code) == Append(code, 1)

RECURSIVE build_codes_helper(_, _, _, _)
build_codes_helper(ar, node, code, tabs) ==
    IF node = 0 THEN tabs
    ELSE LET t1 == IF ar[node].symbol # None
                   THEN [codes |-> Put(tabs.codes, ar[node].symbol, code),
                         reverse_mapping |-> Put(tabs.reverse_mapping, code, ar[node].symbol)]
                   ELSE tabs
             t2 == build_codes_helper(ar, ar[node].left, LeftCode(code), t1)
         IN build_codes_helper(ar, ar[node].right, RightCode(code), t2)

RECURSIVE get_encoded_data(_, _)
get_encoded_data(d, cs) ==
    IF d = <<>> THEN <<>> ELSE cs[Head(d)] \o get_encoded_data(Tail(d), cs)

\* ---------------------------------------------------------------- bits and bytes

RECURSIVE Binary(_)
Binary(n) == IF n < 2 THEN <<n>> ELSE Append(Binary(n \div 2), n % 2)

\* "{0:08b}".format(n) and f"{byte:08b}"
Format08b(n) ==
    LET b == Binary(n)
    IN IF Len(b) >= 8 THEN b ELSE [i \in 1..(8 - Len(b)) |-> 0] \o b

\* int(bits, 2) of a non-empty bit string
RECURSIVE IntBase2(_)
IntBase2(bits) ==
    IF bits = <<>> THEN 0
    ELSE 2 * IntBase2(SubSeq(bits, 1, Len(bits) - 1)) + bits[Len(bits)]

\* a padding that adds nothing when the length is already a multiple of 8
ExtraPaddingToBoundary(encoded_data) == (8 - (Len(encoded_data) % 8)) % 8

ExtraPadding(encoded_data) == 8 - (Len(encoded_data) % 8)

pad_encoded_data(encoded_data) ==
    LET extra_padding == ExtraPadding(encoded_data)
        padded_info == Format08b(extra_padding)
    IN [padded |-> padded_info \o encoded_data \o [i \in 1..extra_padding |-> 0],
        padding |-> extra_padding]

get_byte_array(padded_data) ==
    [k \in 1..((Len(padded_data) + 7) \div 8) |->
        IntBase2(SubSeq(padded_data, 8 * (k - 1) + 1, Min(8 * k, Len(padded_data))))]

RECURSIVE BitString(_)
BitString(byte_array) ==
    IF byte_array = <<>> THEN <<>>
    ELSE Format08b(Head(byte_array)) \o BitString(Tail(byte_array))

\* s[start:stop] for start >= 0 and any stop, as Python slices
PySlice(s, start, stop) ==
    LET e == IF stop < 0 THEN Max(Len(s) + stop, 0) ELSE Min(stop, Len(s))
    IN IF start < e THEN SubSeq(s, start + 1, e) ELSE <<>>

PaddingOf(padded_data) == IntBase2(SubSeq(padded_data, 1, Min(8, Len(padded_data))))

\* padded_data[8:-padding]; -0 is 0, so a padding of 0 slices to the empty string
remove_padding(padded_data) == PySlice(padded_data, 8, 0 - PaddingOf(padded_data))

RECURSIVE DecodeLoop(_, _, _, _)
DecodeLoop(bit_string, rm, current_code, output) ==
    IF bit_string = <<>> THEN [output |-> output, current_code |-> current_code]
    ELSE LET cc == Append(current_code, Head(bit_string))
         IN IF cc \in DOMAIN rm
            THEN DecodeLoop(Tail(bit_string), rm, <<>>, Append(output, rm[cc]))
            ELSE DecodeLoop(Tail(bit_string), rm, cc, output)

decode_data(bit_string, rm) == DecodeLoop(bit_string, rm, <<>>, <<>>).output

\* ---------------------------------------------------------------- compress

\* _read_image: the pixel rows and array.shape (one row of pixels, RGB)
ReadShape(content) == <<1, Len(content), 3>>

\* compress, lines 134-151: read the file, count, fill the heap.  The Node
\* objects of an earlier call are garbage once the heap holds none of them.
CompressRead ==
    /\ pc = "start"
    /\ IF file_type \in TextTypes \cup ImageTypes
       THEN LET freq_dict == build_frequency_dict(file)
                built == build_heap(IF heap = <<>> THEN <<>> ELSE nodes, heap, freq_dict)
            IN /\ data' = file
               /\ image_shape' = IF file_type \in ImageTypes THEN ReadShape(file)
                                 ELSE image_shape
               /\ nodes' = built.nodes
               /\ heap' = built.heap
               /\ pc' = "merge"
               /\ result' = result
       ELSE /\ pc' = "returned"
            /\ result' = "None"
            /\ UNCHANGED <<data, image_shape, nodes, heap>>
    /\ UNCHANGED <<file_type, file, codes, reverse_mapping, container, calls>>
    /\ UNCHANGED dvars

\* _merge_nodes: one iteration of the while loop
MergeStep ==
    /\ pc = "merge"
    /\ Len(heap) > 1
    /\ LET m == merge_step(nodes, heap)
       IN /\ nodes' = m.nodes
          /\ heap' = m.heap
    /\ UNCHANGED <<file_type, file, pc, data, image_shape, codes, reverse_mapping,
                   container, result, calls>>
    /\ UNCHANGED dvars

\* the loop of _merge_nodes is left; _build_codes pops the root (heappop of an
\* empty list raises IndexError, which compress does not catch) and walks the tree
BuildCodes ==
    /\ pc = "merge"
    /\ ~(Len(heap) > 1)
    /\ IF heap = <<>>
       THEN /\ pc' = "raised"
            /\ result' = "IndexError"
            /\ UNCHANGED <<heap, codes, reverse_mapping>>
       ELSE LET p == heappop(nodes, heap)
                tabs == build_codes_helper(nodes, p.item, <<>>,
                            [codes |-> codes, reverse_mapping |-> reverse_mapping])
            IN /\ heap' = p.heap
               /\ codes' = tabs.codes
               /\ reverse_mapping' = tabs.reverse_mapping
               /\ pc' = "pack"
               /\ result' = result
    /\ UNCHANGED <<file_type, file, data, image_shape, nodes, container, calls>>
    /\ UNCHANGED dvars

\* compress, lines 155-171: encode, pad, pack into bytes, pickle the container
Pack ==
    /\ pc = "pack"
    /\ LET encoded_data == get_encoded_data(data, codes)
           p == pad_encoded_data(encoded_data)
           byte_array == get_byte_array(p.padded)
       IN container' = [written |-> TRUE,
                        bytes |-> byte_array,
                        reverse_mapping |-> reverse_mapping,
                        padding |-> p.padding,
                        type |-> file_type,
                        shape |-> image_shape]
    /\ pc' = "returned"
    /\ result' = "OutputPath"
    /\ UNCHANGED <<file_type, file, data, image_shape, nodes, heap, codes,
                   reverse_mapping, calls>>
    /\ UNCHANGED dvars

\* compress is called again on the same instance after the file has changed
Recompress ==
    /\ pc \in {"returned", "raised"}
    /\ calls < MaxCalls
    /\ \E content \in FileContents(file_type, MaxReuseLen) : file' = content
    /\ pc' = "start"
    /\ result' = "NotReturned"
    /\ calls' = calls + 1
    /\ UNCHANGED <<file_type, data, image_shape, nodes, heap, codes, reverse_mapping,
                   container>>
    /\ UNCHANGED dvars

\* ---------------------------------------------------------------- decompress

FlipBit(byte_array, i) ==
    LET bits == BitString(byte_array)
    IN get_byte_array([bits EXCEPT ![i] = 1 - bits[i]])

\* the payloads decompress is run on: the one written, and it with one bit flipped
Payloads(byte_array) ==
    {byte_array} \cup {FlipBit(byte_array, i) : i \in 1..(8 * Len(byte_array))}

\* decompress, lines 175-190: unpickle, unpack the bits, strip the padding, decode;
\* an exception (int('', 2) of an empty payload) is caught and None returned
Unpack(byte_array, rm) ==
    LET bit_string == BitString(byte_array)
    IN IF bit_string = <<>>
       THEN [ok |-> FALSE, decoded |-> <<>>]
       ELSE [ok |-> TRUE, decoded |-> decode_data(remove_padding(bit_string), rm)]

\* np.array(pixels, dtype=np.uint8).reshape(shape) raises unless the sizes agree
ReshapeOk(pixels, shape) == Len(pixels) * 3 = shape[1] * shape[2] * shape[3]

\* decompress, lines 192-208: write the decoded symbols in the container's type
WriteOk(file_type_, dec, shape) ==
    IF file_type_ \in TextTypes THEN TRUE
    ELSE IF file_type_ \in ImageTypes THEN ReshapeOk(dec, shape)
    ELSE FALSE

\* decompress of the container of this file, on a fresh instance
Decompress ==
    /\ container.written
    /\ \E b \in Payloads(container.bytes) :
         LET u == Unpack(b, container.reverse_mapping)
             w == u.ok /\ WriteOk(container.type, u.decoded, container.shape)
         IN /\ d_bytes' = b
            /\ decoded' = u.decoded
            /\ d_output' = IF w THEN [written |-> TRUE, content |-> u.decoded] ELSE NoFile
            /\ d_result' = IF w THEN "OutputPath" ELSE "None"
    /\ UNCHANGED cvars

\* ---------------------------------------------------------------- specifications

InitUpTo(n) ==
    /\ file_type \in FileTypes
    /\ file \in FileContents(file_type, n)
    /\ pc = "start"
    /\ data = <<>>
    /\ image_shape = NoShape
    /\ nodes = <<>>
    /\ heap = <<>>
    /\ codes = EmptyDict
    /\ reverse_mapping = EmptyDict
    /\ container = NoContainer
    /\ result = "NotReturned"
    /\ d_bytes = <<>>
    /\ decoded = <<>>
    /\ d_output = NoFile
    /\ d_result = "NotReturned"
    /\ calls = 1

Init == InitUpTo(MaxLen)

Next ==
    \/ CompressRead
    \/ MergeStep
    \/ BuildCodes
    \/ Pack
    \/ Decompress

\* every compress and decompress runs on an instance of its own, as app.py calls them
Spec == Init /\ [][Next]_vars

InitReuse == InitUpTo(MaxReuseLen)

NextReuse ==
    \/ CompressRead
    \/ MergeStep
    \/ BuildCodes
    \/ Pack
    \/ Recompress

\* one instance on which compress is called again
SpecReuse == InitReuse /\ [][NextReuse]_vars

\* ---------------------------------------------------------------- claims

IsPrefix(a, b) == Len(a) <= Len(b) /\ SubSeq(b, 1, Len(a)) = a

SymbolsOf(d) == {d[i] : i \in 1..Len(d)}

\* the tables a newly constructed instance derives from d (d non-empty)
FreshTables(d) ==
    LET b == build_heap(<<>>, <<>>, build_frequency_dict(d))
        m == merge_nodes(b.nodes, b.heap)
        p == heappop(m.nodes, m.heap)
    IN build_codes_helper(m.nodes, p.item, <<>>, [codes |-> <<>>, reverse_mapping |-> <<>>])

RECURSIVE SumFreq(_, _)
SumFreq(ar, h) == IF h = <<>> THEN 0 ELSE ar[Head(h)].freq + SumFreq(ar, Tail(h))

IsInternal(n) == n.left # 0 \/ n.right # 0

Merges(ar) == Cardinality({i \in 1..Len(ar) : IsInternal(ar[i])})

\* the symbols at the leaves below a node, left to right
RECURSIVE LeafSymbols(_, _)
LeafSymbols(ar, node) ==
    IF node = 0 THEN <<>>
    ELSE IF ~IsInternal(ar[node]) THEN <<ar[node].symbol>>
    ELSE LeafSymbols(ar, ar[node].left) \o LeafSymbols(ar, ar[node].right)

RECURSIVE HeapLeafSymbols(_, _)
HeapLeafSymbols(ar, h) ==
    IF h = <<>> THEN <<>> ELSE LeafSymbols(ar, Head(h)) \o HeapLeafSymbols(ar, Tail(h))

\* decompress was run on the payload exactly as compress wrote it
RanUnflipped == d_result # "NotReturned" /\ d_bytes = container.bytes

\* decompress was run on the payload with one bit flipped
RanFlipped == d_result # "NotReturned" /\ d_bytes # container.bytes

\* the container decodes to the sequence it was made from (section 3's invariant)
ValidContainer ==
    /\ container.written
    /\ Unpack(container.bytes, container.reverse_mapping).decoded = data

\* what is left in current_code when _decode_data has consumed the bits decompress read
Leftover == DecodeLoop(remove_padding(BitString(d_bytes)), container.reverse_mapping,
                       <<>>, <<>>).current_code

\* C1: round trip.  Decompressing the container compress wrote yields exactly the
\* symbol sequence that was compressed, also when it has one distinct symbol.
C1_RoundTrip ==
    RanUnflipped => /\ d_result = "OutputPath"
                    /\ d_output.written
                    /\ d_output.content = data

\* C2: once compress has derived the tables, no symbol's code is a prefix of another
\* symbol's code, the symbol->code table covers exactly the symbols of the input and
\* the code->symbol table (also as persisted) is its inverse.
C2_PrefixFreeBijection ==
    /\ pc = "pack" \/ (pc = "returned" /\ result = "OutputPath") =>
          /\ DOMAIN codes = SymbolsOf(data)
          /\ \A s \in DOMAIN codes : \A t \in DOMAIN codes :
                s # t => ~IsPrefix(codes[s], codes[t])
          /\ \A s \in DOMAIN codes :
                codes[s] \in DOMAIN reverse_mapping /\ reverse_mapping[codes[s]] = s
          /\ \A c \in DOMAIN reverse_mapping :
                reverse_mapping[c] \in DOMAIN codes /\ codes[reverse_mapping[c]] = c
    /\ pc = "returned" /\ result = "OutputPath" =>
          container.reverse_mapping = reverse_mapping

\* C2 witness: tables derived from three distinct symbols, so pairs exist
C2_Witness ==
    /\ pc = "returned" /\ result = "OutputPath"
    /\ Cardinality(DOMAIN codes) = 3
    /\ \E s \in DOMAIN codes : Len(codes[s]) = 1

\* C3: every code derived is non-empty, also for a single distinct symbol.
C3_NonEmptyCodes ==
    \A s \in DOMAIN codes : Len(codes[s]) >= 1

\* C4: padding.  With e the encoded bits, the padded string is 8 header bits that
\* are the binary of extra = 8 - (len(e) mod 8), then e, then extra zero bits; extra
\* is in 1..8 (8 when len(e) is a multiple of 8), the total is a multiple of 8 bits,
\* and the padding count stored is extra.
C4_Padding ==
    pc = "returned" /\ result = "OutputPath" =>
        LET e == get_encoded_data(data, codes)
            bits == BitString(container.bytes)
            extra == container.padding
        IN /\ extra \in 1..8
           /\ (Len(e) + extra) % 8 = 0
           /\ (Len(e) % 8 = 0 => extra = 8)
           /\ Len(bits) % 8 = 0
           /\ Len(bits) = 8 + Len(e) + extra
           /\ IntBase2(SubSeq(bits, 1, 8)) = extra
           /\ SubSeq(bits, 9, 8 + Len(e)) = e
           /\ \A i \in (8 + Len(e) + 1)..Len(bits) : bits[i] = 0
           /\ bits = pad_encoded_data(e).padded

\* C4 witness: an encoded string of exactly 8 bits was padded with 8 more
C4_Witness ==
    /\ pc = "returned" /\ result = "OutputPath"
    /\ Len(get_encoded_data(data, codes)) = 8
    /\ container.padding = 8

\* C5: compressing an empty sequence fails with EmptyInputError and leaves no container.
C5_EmptyInput ==
    (file_type \in TextTypes /\ file = <<>> /\ pc \in {"raised", "returned"}) =>
        /\ result = "EmptyInputError"
        /\ ~container.written

\* C6: with one payload bit of a valid container flipped, decompress either writes
\* the original sequence or fails (the code's failure result is None); it never
\* returns a path to other content.
C6_CorruptRejected ==
    (ValidContainer /\ RanFlipped) =>
        \/ d_result = "OutputPath" /\ d_output.content = data
        \/ d_result \in {"None", "CorruptContainerError"}

\* C7: when bits are left in the accumulator after the last bit, decoding fails
\* instead of returning the symbols decoded so far.
C7_LeftoverFails ==
    (ValidContainer /\ d_result # "NotReturned" /\ Leftover # <<>>) =>
        d_result \in {"None", "CorruptContainerError"}

\* C8: the first 8 bits are the padding count; a count outside 0..8 or larger than
\* the bits after the header fails; otherwise exactly the header and the last count
\* bits are stripped (nothing from the tail for a count of 0).
C8_HeaderValidated ==
    (ValidContainer /\ d_result # "NotReturned") =>
        LET bits == BitString(d_bytes)
            padding_count == PaddingOf(bits)
        IN IF padding_count \notin 0..8 \/ padding_count > Len(bits) - 8
           THEN d_result \in {"None", "CorruptContainerError"}
           ELSE remove_padding(bits) = SubSeq(bits, 9, Len(bits) - padding_count)

\* C9: the code->symbol table a compress call persists holds exactly the codes
\* derived from that call's input, whatever earlier calls on the instance did.
C9_NoLeftover ==
    pc = "returned" /\ result = "OutputPath" =>
        container.reverse_mapping = FreshTables(data).reverse_mapping

\* C10: tree construction.  While merging, the frequencies in the heap sum to N,
\* the heap length plus the merges done is k (so one node is left after exactly
\* k - 1 merges), every symbol is at exactly one leaf under the heap's nodes,
\* internal nodes carry no symbol, their frequency is the sum of their children's,
\* the first-popped (left) child is no heavier than the right one, and the node
\* merged last took the two lowest frequencies.
C10_TreeConstruction ==
    pc = "merge" =>
        LET k == Cardinality(SymbolsOf(data))
            N == Len(data)
            leaves == HeapLeafSymbols(nodes, heap)
        IN /\ SumFreq(nodes, heap) = N
           /\ Len(heap) + Merges(nodes) = k
           /\ (k >= 1 /\ ~(Len(heap) > 1) => Len(heap) = 1 /\ Merges(nodes) = k - 1)
           /\ Len(leaves) = k
           /\ \A s \in SymbolsOf(data) : Cardinality({i \in 1..Len(leaves) : leaves[i] = s}) = 1
           /\ \A i \in 1..Len(nodes) :
                IF IsInternal(nodes[i])
                THEN /\ nodes[i].symbol = None
                     /\ nodes[i].left # 0 /\ nodes[i].right # 0
                     /\ nodes[i].freq = nodes[nodes[i].left].freq + nodes[nodes[i].right].freq
                     /\ nodes[nodes[i].left].freq <= nodes[nodes[i].right].freq
                ELSE /\ nodes[i].symbol \in SymbolsOf(data)
                     /\ nodes[i].freq = Count(data, nodes[i].symbol)
           /\ (nodes # <<>> /\ IsInternal(nodes[Len(nodes)]) =>
                 \A j \in 1..Len(heap) :
                    heap[j] # Len(nodes) =>
                       nodes[nodes[Len(nodes)].right].freq <= nodes[heap[j]].freq)

\* C10 witness: the loop has ended on three distinct symbols after two merges
C10_Witness ==
    /\ pc = "merge"
    /\ Len(heap) = 1
    /\ Cardinality(SymbolsOf(data)) = 3
    /\ Merges(nodes) = 2

====
